---- MODULE Spec2Model ----
(***************************************************************************)
(* The realtime relay of src/server/server.js: the connection acceptor,    *)
(* the session registry (activeSessions) and the per-session handlers for  *)
(* the client WebSocket and the upstream (Speechmatics) WebSocket.         *)
(* The same relay as src/unnamed/part_000 has it (definitions with the    *)
(* suffix 000) and the handler of POST /api/transcribe follow it.          *)
(*                                                                         *)
(* Node runs every handler to completion on one thread, so each handler is *)
(* one atomic action.  The connections the server ever sees are numbered   *)
(* 1..MaxConns in the order of their "connection" events; a session is     *)
(* identified by the number of the connection that created it, and its     *)
(* registry key is sid[c], the sec-websocket-key the client sent.          *)
(***************************************************************************)
EXTENDS Integers, Sequences, FiniteSets, TLC

\* ------------------------------------------------------------------ bounds
MaxConns == 3
NumKeys == 3
MaxMsgs == 4
MaxPings == 1
MaxEvents == 6
\* connections in the specifications that vary the inputs of one session
FocusConns == 1

Conns == 1..MaxConns
Keys == 1..NumKeys

\* --------------------------------------------------------------- constants
MAX_CONCURRENT_SESSIONS == 2

SUPPORTED_LANGUAGES == {"ar", "en", "es", "fr", "de", "it", "pt", "ru", "zh", "ja", "ko"}

\* Property names every object literal inherits from Object.prototype.
ObjectPrototype == {"constructor", "toString", "valueOf", "hasOwnProperty", "__proto__"}

\* The lang query parameter as URLSearchParams.get returns it; "null" stands
\* for a request without the parameter, "" for the query string "lang=".
LangParams == SUPPORTED_LANGUAGES \cup ObjectPrototype \cup {"null", "", "zz"}

\* Client payloads: a JSON text frame, a binary frame that is not JSON.
ClientPayloads == {"{\"config\":1}", "pcm"}

\* JSON.parse(data.toString()) returns (TRUE) or throws (FALSE).
ParsesAsJSON(p) == p \in {"{\"config\":1}"}

Undefined == "undefined"

\* Messages the upstream can deliver: [json] is whether JSON.parse accepts the
\* frame, [message] the message field, [transcript] metadata.transcript and
\* [reason] the reason field.
UpstreamMsg(j, m, t, r) == [json |-> j, message |-> m, transcript |-> t, reason |-> r]

UpstreamMsgs ==
    { UpstreamMsg(TRUE, "RecognitionStarted", Undefined, Undefined),
      UpstreamMsg(TRUE, "AddPartialTranscript", "hello", Undefined),
      UpstreamMsg(TRUE, "AddTranscript", Undefined, Undefined),
      UpstreamMsg(TRUE, "AudioAdded", Undefined, Undefined),
      UpstreamMsg(TRUE, "Error", Undefined, "bad audio"),
      UpstreamMsg(TRUE, "Warning", Undefined, Undefined),
      UpstreamMsg(TRUE, "Info", Undefined, Undefined),
      UpstreamMsg(FALSE, Undefined, Undefined, Undefined) }

\* What the environment draws from in the lifecycle specification Spec: the
\* number of connections it makes, the lang parameters of requests, the
\* client payloads and the message fields of upstream messages.
LifecycleEnv ==
    [ conns    |-> MaxConns,
      langs    |-> {"en"},
      payloads |-> ClientPayloads,
      upMsgs   |-> {"AddPartialTranscript", "AddTranscript", "AudioAdded"} ]

\* Few connections, every kind of upstream message.
MessagesEnv ==
    [ conns    |-> FocusConns,
      langs    |-> {"en"},
      payloads |-> {"pcm"},
      upMsgs   |-> {m.message : m \in UpstreamMsgs} ]

\* Few connections, every lang parameter.
LanguageEnv ==
    [ conns    |-> FocusConns,
      langs    |-> LangParams,
      payloads |-> {"pcm"},
      upMsgs   |-> {"AddTranscript"} ]

\* ------------------------------------------------------------------- state
VARIABLES
    nextConn,       \* number of the next connection the server will accept
    registry,       \* activeSessions: key -> session (0 = no entry)
    sid,            \* sessionId of each connection (0 = not yet connected)
    query,          \* the lang parameter of req.url of each connection
    phase,          \* "none" | "rejected" | "session"
    closed,         \* session.closed
    timer,          \* session.pingInterval: "none" | "running" | "cleared"
    language,       \* session.language
    audioReceived,  \* session.audioReceived
    cliState,       \* clientWs.readyState: "NONE" | "OPEN" | "CLOSING" | "CLOSED"
    cliErrorRan,    \* the client "error" event has been delivered
    upState,        \* session.speechmaticsWs: "NULL" or its readyState
    clientOut,      \* what the relay passed to clientWs.send, in order
    upOut,          \* what the relay passed to speechmaticsWs.send, in order
    cliIn,          \* payloads the client "message" handler was called with
    upIn,           \* messages the upstream "message" handler was called with
    pings,          \* number of clientWs.ping() calls
    openSent,       \* the sends of each session's upstream "open" handler, in order
    events,         \* number of events handled so far
    env,            \* what the environment draws its inputs from (never changes)
    \* one request to POST /api/transcribe
    stage,          \* the await the handler stands at: "none" (no request yet) |
                    \* "creating" | "sleeping" | "polling" | "fetching" | "responded"
    attempts,       \* let attempts
    transcript,     \* let transcript
    polls,          \* number of status requests sent for the job
    reply,          \* the latest reply of the upstream REST API
    responses       \* what the handler passed to res.json, in order

relayVars == <<nextConn, registry, sid, query, phase, closed, timer, language,
               audioReceived, cliState, cliErrorRan, upState, clientOut, upOut,
               cliIn, upIn, pings, openSent, events, env>>

batchVars == <<stage, attempts, transcript, polls, reply, responses>>

vars == <<relayVars, batchVars>>

\* ----------------------------------------------------------------- helpers
RECURSIVE SumLen(_, _)
SumLen(f, n) == IF n = 0 THEN 0 ELSE Len(f[n]) + SumLen(f, n - 1)

\* messages delivered so far, in both directions, to all sessions
Delivered == SumLen(cliIn, MaxConns) + SumLen(upIn, MaxConns)

\* a || b of JavaScript, for the string values used here
OrElse(a, b) == IF a \in {Undefined, ""} THEN b ELSE a

\* Map of JavaScript, keyed by sessionId
MapSize(m) == Cardinality({k \in DOMAIN m : m[k] # 0})
MapHas(m, k) == m[k] # 0
MapSet(m, k, v) == [m EXCEPT ![k] = v]
MapDelete(m, k) == [m EXCEPT ![k] = 0]

\* events sent to the client; src is the position in upIn of the upstream
\* message that produced the event (0 when none did)
ClientEvent(t, x, s) == [type |-> t, text |-> x, src |-> s]

\* messages sent upstream; src is the position in cliIn of the client frame
\* that is forwarded (0 for a control message of the relay)
UpItem(m, d, s) == [message |-> m, data |-> d, src |-> s]

CapacityError == ClientEvent("error", "Server at capacity. Please try again later.", 0)
SetupError == ClientEvent("error", "Failed to setup Speechmatics connection", 0)
ReadyEvent == ClientEvent("ready", "Ready to receive audio", 0)
DisconnectedEvent == ClientEvent("speechmatics_disconnected", "Speechmatics connection closed", 0)
UpstreamErrorEvent == ClientEvent("error", "Speechmatics connection error", 0)

\* WebSocket.close() of the ws library on the upstream socket: a socket that
\* is connecting or open starts closing, any other state is left alone.
WsClose(st) == IF st \in {"CONNECTING", "OPEN"} THEN "CLOSING" ELSE st

\* a readiness test that also accepts a socket that is still connecting
UpstreamIsOpen_OrConnecting(c) == upState[c] \in {"CONNECTING", "OPEN"}

\* readyState === WebSocket.OPEN on the upstream socket
UpstreamIsOpen(c) == upState[c] = "OPEN"

\* The server handles one more event; a behaviour has at most MaxEvents.
Handled == events < MaxEvents /\ events' = events + 1

\* ------------------------------------------------------------ the acceptor
\* the capacity check with > in place of >=
AtCapacity_OffByOne == MapSize(registry) > MAX_CONCURRENT_SESSIONS

AtCapacity == MapSize(registry) >= MAX_CONCURRENT_SESSIONS

\* SUPPORTED_LANGUAGES[key]: an own property maps a code to itself, a name
\* of Object.prototype yields the inherited member, any other key undefined.
Inherited(key) == "[Object.prototype." \o key \o "]"

LanguageOf(key) ==
    IF key \in SUPPORTED_LANGUAGES THEN key
    ELSE IF key \in ObjectPrototype THEN Inherited(key)
    ELSE Undefined

ResolveLanguage(q) ==
    LET langParam == OrElse(IF q = "null" THEN Undefined ELSE q, "ar")
    IN  OrElse(LanguageOf(langParam), "ar")

\* sec-websocket-key values are interchangeable, so a connection draws either
\* a key some earlier connection used or the smallest key never used.
UsedKeys == {sid[c] : c \in {d \in Conns : sid[d] # 0}}
KeyChoices == {k \in Keys : k \in UsedKeys \/ \A j \in Keys : j < k => j \in UsedKeys}

InitSessions ==
    /\ nextConn = 1
    /\ registry = [k \in Keys |-> 0]
    /\ sid = [c \in Conns |-> 0]
    /\ query = [c \in Conns |-> Undefined]
    /\ phase = [c \in Conns |-> "none"]
    /\ closed = [c \in Conns |-> FALSE]
    /\ timer = [c \in Conns |-> "none"]
    /\ language = [c \in Conns |-> Undefined]
    /\ audioReceived = [c \in Conns |-> FALSE]
    /\ cliState = [c \in Conns |-> "NONE"]
    /\ cliErrorRan = [c \in Conns |-> FALSE]
    /\ upState = [c \in Conns |-> "NULL"]
    /\ clientOut = [c \in Conns |-> <<>>]
    /\ upOut = [c \in Conns |-> <<>>]
    /\ cliIn = [c \in Conns |-> <<>>]
    /\ upIn = [c \in Conns |-> <<>>]
    /\ pings = 0
    /\ openSent = [c \in Conns |-> <<>>]

\* wss.on("connection"): the capacity check, the session, its registration and
\* setupSpeechmatics() up to the return of new WebSocket (throws = it threw).
\* the rejection without clientWs.close()
Reject_NoClose(c, k) ==
    /\ sid' = [sid EXCEPT ![c] = k]
    /\ phase' = [phase EXCEPT ![c] = "rejected"]
    /\ clientOut' = [clientOut EXCEPT ![c] = Append(@, CapacityError)]
    /\ cliState' = [cliState EXCEPT ![c] = "OPEN"]
    /\ UNCHANGED <<registry, closed, timer, language, audioReceived, cliErrorRan,
                   upState, upOut, cliIn, upIn, pings, env, batchVars, openSent>>

Reject(c, k) ==
    /\ sid' = [sid EXCEPT ![c] = k]
    /\ phase' = [phase EXCEPT ![c] = "rejected"]
    /\ clientOut' = [clientOut EXCEPT ![c] = Append(@, CapacityError)]
    /\ cliState' = [cliState EXCEPT ![c] = "CLOSING"]
    /\ UNCHANGED <<registry, closed, timer, language, audioReceived, cliErrorRan,
                   upState, upOut, cliIn, upIn, pings, env, batchVars, openSent>>

Admit(c, k, q, throws) ==
    /\ sid' = [sid EXCEPT ![c] = k]
    /\ phase' = [phase EXCEPT ![c] = "session"]
    /\ cliState' = [cliState EXCEPT ![c] = "OPEN"]
    /\ timer' = [timer EXCEPT ![c] = "running"]
    /\ language' = [language EXCEPT ![c] = ResolveLanguage(q)]
    /\ registry' = MapSet(registry, k, c)
    /\ IF throws
         THEN /\ clientOut' = [clientOut EXCEPT ![c] = Append(@, SetupError)]
              /\ UNCHANGED upState
         ELSE /\ upState' = [upState EXCEPT ![c] = "CONNECTING"]
              /\ UNCHANGED clientOut
    /\ UNCHANGED <<closed, audioReceived, cliErrorRan, upOut, cliIn, upIn, pings, env, batchVars, openSent>>

Connection(k, q, throws) ==
    /\ Handled
    /\ nextConn <= MaxConns
    /\ nextConn <= env.conns
    /\ k \in KeyChoices
    /\ nextConn' = nextConn + 1
    /\ query' = [query EXCEPT ![nextConn] = q]
    /\ IF AtCapacity
         THEN Reject(nextConn, k)
         ELSE Admit(nextConn, k, q, throws)

\* --------------------------------------------------- upstream handlers
\* speechmaticsWs.on("open"): StartRecognition upstream, then ready to the client.
StartRecognition(c) == UpItem("StartRecognition", language[c], 0)

\* one send of a handler: the socket it writes to and what it writes
Send(to, item) == [to |-> to, item |-> item]

\* what a sequence of sends writes to one socket, in order
SentTo(sends, to) ==
    LET sel == SelectSeq(sends, LAMBDA s : s.to = to)
    IN  [i \in 1..Len(sel) |-> sel[i].item]

\* an "open" handler that tells the client before it writes upstream
OpenSends_ReadyFirst(c) ==
    <<Send("client", ReadyEvent), Send("upstream", StartRecognition(c))>>

\* the sends of the "open" handler, in the order of the code
OpenSends(c) ==
    <<Send("upstream", StartRecognition(c)), Send("client", ReadyEvent)>>

UpstreamOpen(c) ==
    /\ Handled
    /\ phase[c] = "session"
    /\ upState[c] = "CONNECTING"
    /\ upState' = [upState EXCEPT ![c] = "OPEN"]
    /\ openSent' = [openSent EXCEPT ![c] = OpenSends(c)]
    /\ upOut' = [upOut EXCEPT ![c] = @ \o SentTo(OpenSends(c), "upstream")]
    /\ clientOut' = [clientOut EXCEPT ![c] = @ \o SentTo(OpenSends(c), "client")]
    /\ UNCHANGED <<nextConn, registry, sid, query, phase, closed, timer, language,
                   audioReceived, cliState, cliErrorRan, cliIn, upIn, pings, env, batchVars>>

\* an upstream "message" handler that relays nothing
Normalize_Mute(msg, n) == <<>>

\* The events the upstream "message" handler sends to the client for msg, the
\* n-th message of the session: a sequence of zero or one event.
Normalize(msg, n) ==
    IF ~msg.json THEN <<>>
    ELSE IF msg.message = "RecognitionStarted"
      THEN <<ClientEvent("recognition_started", "Speech recognition active", n)>>
    ELSE IF msg.message \in {"AddPartialTranscript", "AddTranscript"}
      THEN <<ClientEvent(IF msg.message = "AddTranscript" THEN "final" ELSE "partial",
                         OrElse(msg.transcript, ""), n)>>
    ELSE IF msg.message = "AudioAdded" THEN <<>>
    ELSE IF msg.message = "Error"
      THEN <<ClientEvent("error", OrElse(msg.reason, "Speechmatics error"), n)>>
    ELSE IF msg.message = "Warning"
      THEN <<ClientEvent("warning", OrElse(msg.reason, "Speechmatics warning"), n)>>
    ELSE <<>>

\* clientWs.send of the events of one upstream message
Relay(out, evs) == out \o evs

\* the upstream "message" handler without its closed check
UpstreamMessageIgnored_Never(c) == FALSE

\* if (session.closed) return;  at the head of the upstream "message" handler
UpstreamMessageIgnored(c) == closed[c]

\* if (session.closed) return;  at the head of the client "message" handler
ClientMessageIgnored(c) == closed[c]

UpstreamMessage(c, msg) ==
    /\ Handled
    /\ phase[c] = "session"
    /\ upState[c] \in {"OPEN", "CLOSING"}
    /\ Delivered < MaxMsgs
    /\ upIn' = [upIn EXCEPT ![c] = Append(@, msg)]
    /\ IF UpstreamMessageIgnored(c)
         THEN UNCHANGED <<clientOut, audioReceived>>
         ELSE /\ clientOut' = [clientOut EXCEPT ![c] = Relay(@, Normalize(msg, Len(upIn[c]) + 1))]
              /\ audioReceived' = [audioReceived EXCEPT ![c] =
                                      @ \/ (msg.json /\ msg.message = "AudioAdded")]
    /\ UNCHANGED <<nextConn, registry, sid, query, phase, closed, timer, language,
                   cliState, cliErrorRan, upState, upOut, cliIn, pings, env, batchVars, openSent>>

\* speechmaticsWs.on("close")
UpstreamClose(c) ==
    /\ Handled
    /\ phase[c] = "session"
    /\ upState[c] \in {"OPEN", "CLOSING", "ERRORED"}
    /\ upState' = [upState EXCEPT ![c] = "CLOSED"]
    /\ IF ~closed[c]
         THEN clientOut' = [clientOut EXCEPT ![c] = Append(@, DisconnectedEvent)]
         ELSE UNCHANGED clientOut
    /\ UNCHANGED <<nextConn, registry, sid, query, phase, closed, timer, language,
                   audioReceived, cliState, cliErrorRan, upOut, cliIn, upIn, pings, env, batchVars, openSent>>

\* speechmaticsWs.on("error"); the socket is then on its way to "close"
UpstreamError(c) ==
    /\ Handled
    /\ phase[c] = "session"
    /\ upState[c] \in {"CONNECTING", "OPEN", "CLOSING"}
    /\ upState' = [upState EXCEPT ![c] = "ERRORED"]
    /\ IF ~closed[c]
         THEN clientOut' = [clientOut EXCEPT ![c] = Append(@, UpstreamErrorEvent)]
         ELSE UNCHANGED clientOut
    /\ UNCHANGED <<nextConn, registry, sid, query, phase, closed, timer, language,
                   audioReceived, cliState, cliErrorRan, upOut, cliIn, upIn, pings, env, batchVars, openSent>>

\* ----------------------------------------------------- client handlers
\* a relay that queues the newest frame ahead of the earlier ones
Forward_Prepend(out, item) == <<item>> \o out

\* session.speechmaticsWs.send(data) of the client "message" handler
Forward(out, item) == Append(out, item)

ClientMessage(c, p) ==
    /\ Handled
    /\ phase[c] = "session"
    /\ cliState[c] \in {"OPEN", "CLOSING"}
    /\ Delivered < MaxMsgs
    /\ cliIn' = [cliIn EXCEPT ![c] = Append(@, p)]
    /\ IF ClientMessageIgnored(c) \/ ParsesAsJSON(p) \/ ~UpstreamIsOpen(c)
         THEN UNCHANGED upOut
         ELSE upOut' = [upOut EXCEPT ![c] = Forward(@, UpItem("audio", p, Len(cliIn[c]) + 1))]
    /\ UNCHANGED <<nextConn, registry, sid, query, phase, closed, timer, language,
                   audioReceived, cliState, cliErrorRan, upState, clientOut, upIn, pings, env, batchVars, openSent>>

EndOfStream == UpItem("EndOfStream", Undefined, 0)

\* clientWs.on("close")
ClientClose(c) ==
    /\ Handled
    /\ phase[c] = "session"
    /\ cliState[c] # "CLOSED"
    /\ cliState' = [cliState EXCEPT ![c] = "CLOSED"]
    /\ closed' = [closed EXCEPT ![c] = TRUE]
    /\ timer' = [timer EXCEPT ![c] = "cleared"]
    /\ IF upState[c] # "NULL"
         THEN /\ upOut' = [upOut EXCEPT ![c] =
                              IF UpstreamIsOpen(c) THEN Append(@, EndOfStream) ELSE @]
              /\ upState' = [upState EXCEPT ![c] = WsClose(@)]
         ELSE UNCHANGED <<upOut, upState>>
    /\ registry' = MapDelete(registry, sid[c])
    /\ UNCHANGED <<nextConn, sid, query, phase, language, audioReceived, cliErrorRan,
                   clientOut, cliIn, upIn, pings, env, batchVars, openSent>>

\* clientWs.on("error"); a socket emits "error" before its "close", never after
ClientError(c) ==
    /\ Handled
    /\ phase[c] = "session"
    /\ cliState[c] # "CLOSED"
    /\ ~cliErrorRan[c]
    /\ cliErrorRan' = [cliErrorRan EXCEPT ![c] = TRUE]
    /\ cliState' = [cliState EXCEPT ![c] = IF @ = "OPEN" THEN "CLOSING" ELSE @]
    /\ closed' = [closed EXCEPT ![c] = TRUE]
    /\ timer' = [timer EXCEPT ![c] = "cleared"]
    /\ IF upState[c] # "NULL"
         THEN upState' = [upState EXCEPT ![c] = WsClose(@)]
         ELSE UNCHANGED upState
    /\ registry' = MapDelete(registry, sid[c])
    /\ UNCHANGED <<nextConn, sid, query, phase, language, audioReceived, clientOut,
                   upOut, cliIn, upIn, pings, env, batchVars, openSent>>

\* the setInterval callback of session.pingInterval
PingTick(c) ==
    /\ Handled
    /\ timer[c] = "running"
    /\ pings < MaxPings
    /\ ~closed[c] /\ cliState[c] = "OPEN"
    /\ pings' = pings + 1
    /\ UNCHANGED <<nextConn, registry, sid, query, phase, closed, timer, language,
                   audioReceived, cliState, cliErrorRan, upState, clientOut,
                   upOut, cliIn, upIn, env, batchVars, openSent>>

\* ------------------------------------------ the variant of part_000
\* src/unnamed/part_000 is an earlier version of the same relay, with the
\* same acceptor, registry, timer and client "error" handler. Its handlers
\* carry the suffix 000; where the code is that of server.js the
\* definition stands for the same lines of part_000.
Reject000(c, k) == Reject(c, k)

\* clientWs.close() by the relay
CloseClient(st) == IF st = "OPEN" THEN "CLOSING" ELSE st

ConnectionErrorEvent == ClientEvent("error", "Connection error", 0)

Admit000(c, k, q, throws) ==
    /\ sid' = [sid EXCEPT ![c] = k]
    /\ phase' = [phase EXCEPT ![c] = "session"]
    /\ timer' = [timer EXCEPT ![c] = "running"]
    /\ language' = [language EXCEPT ![c] = ResolveLanguage(q)]
    /\ registry' = MapSet(registry, k, c)
    /\ IF throws
         THEN /\ cliState' = [cliState EXCEPT ![c] = "CLOSING"]
              /\ UNCHANGED upState
         ELSE /\ cliState' = [cliState EXCEPT ![c] = "OPEN"]
              /\ upState' = [upState EXCEPT ![c] = "CONNECTING"]
    /\ UNCHANGED <<closed, audioReceived, cliErrorRan, clientOut, upOut, cliIn, upIn,
                   pings, env, batchVars, openSent>>

Connection000(k, q, throws) ==
    /\ Handled
    /\ nextConn <= MaxConns
    /\ nextConn <= env.conns
    /\ k \in KeyChoices
    /\ nextConn' = nextConn + 1
    /\ query' = [query EXCEPT ![nextConn] = q]
    /\ IF AtCapacity
         THEN Reject000(nextConn, k)
         ELSE Admit000(nextConn, k, q, throws)

\* speechmaticsWs.on("open"): StartRecognition upstream, nothing to the client
OpenSends000(c) == <<Send("upstream", StartRecognition(c))>>

UpstreamOpen000(c) ==
    /\ Handled
    /\ phase[c] = "session"
    /\ upState[c] = "CONNECTING"
    /\ upState' = [upState EXCEPT ![c] = "OPEN"]
    /\ openSent' = [openSent EXCEPT ![c] = OpenSends000(c)]
    /\ upOut' = [upOut EXCEPT ![c] = @ \o SentTo(OpenSends000(c), "upstream")]
    /\ UNCHANGED <<nextConn, registry, sid, query, phase, closed, timer, language,
                   audioReceived, cliState, cliErrorRan, clientOut, cliIn, upIn,
                   pings, env, batchVars>>

Normalize000(msg, n) ==
    IF ~msg.json THEN <<>>
    ELSE IF msg.message \in {"AddPartialTranscript", "AddTranscript"}
      THEN <<ClientEvent(IF msg.message = "AddTranscript" THEN "final" ELSE "partial",
                         OrElse(msg.transcript, ""), n)>>
    ELSE IF msg.message = "Error"
      THEN <<ClientEvent("error", OrElse(msg.reason, "Speechmatics error"), n)>>
    ELSE <<>>

UpstreamMessage000(c, msg) ==
    /\ Handled
    /\ phase[c] = "session"
    /\ upState[c] \in {"OPEN", "CLOSING"}
    /\ Delivered < MaxMsgs
    /\ upIn' = [upIn EXCEPT ![c] = Append(@, msg)]
    /\ IF closed[c]
         THEN UNCHANGED clientOut
         ELSE clientOut' = [clientOut EXCEPT ![c] = Relay(@, Normalize000(msg, Len(upIn[c]) + 1))]
    /\ UNCHANGED <<nextConn, registry, sid, query, phase, closed, timer, language,
                   audioReceived, cliState, cliErrorRan, upState, upOut, cliIn,
                   pings, env, batchVars, openSent>>

\* speechmaticsWs.on("close"): closes the client
UpstreamClose000(c) ==
    /\ Handled
    /\ phase[c] = "session"
    /\ upState[c] \in {"OPEN", "CLOSING", "ERRORED"}
    /\ upState' = [upState EXCEPT ![c] = "CLOSED"]
    /\ IF ~closed[c]
         THEN cliState' = [cliState EXCEPT ![c] = CloseClient(@)]
         ELSE UNCHANGED cliState
    /\ UNCHANGED <<nextConn, registry, sid, query, phase, closed, timer, language,
                   audioReceived, cliErrorRan, clientOut, upOut, cliIn, upIn,
                   pings, env, batchVars, openSent>>

\* speechmaticsWs.on("error"): an error event, then closes the client
UpstreamError000(c) ==
    /\ Handled
    /\ phase[c] = "session"
    /\ upState[c] \in {"CONNECTING", "OPEN", "CLOSING"}
    /\ upState' = [upState EXCEPT ![c] = "ERRORED"]
    /\ IF ~closed[c]
         THEN /\ clientOut' = [clientOut EXCEPT ![c] = Append(@, ConnectionErrorEvent)]
              /\ cliState' = [cliState EXCEPT ![c] = CloseClient(@)]
         ELSE UNCHANGED <<clientOut, cliState>>
    /\ UNCHANGED <<nextConn, registry, sid, query, phase, closed, timer, language,
                   audioReceived, cliErrorRan, upOut, cliIn, upIn, pings, env, batchVars, openSent>>

\* clientWs.on("message"): every payload is forwarded while upstream is open
ClientMessage000(c, p) ==
    /\ Handled
    /\ phase[c] = "session"
    /\ cliState[c] \in {"OPEN", "CLOSING"}
    /\ Delivered < MaxMsgs
    /\ cliIn' = [cliIn EXCEPT ![c] = Append(@, p)]
    /\ IF closed[c] \/ ~UpstreamIsOpen(c)
         THEN UNCHANGED upOut
         ELSE upOut' = [upOut EXCEPT ![c] = Forward(@, UpItem("audio", p, Len(cliIn[c]) + 1))]
    /\ UNCHANGED <<nextConn, registry, sid, query, phase, closed, timer, language,
                   audioReceived, cliState, cliErrorRan, upState, clientOut, upIn,
                   pings, env, batchVars, openSent>>

\* clientWs.on("close"): no EndOfStream
ClientClose000(c) ==
    /\ Handled
    /\ phase[c] = "session"
    /\ cliState[c] # "CLOSED"
    /\ cliState' = [cliState EXCEPT ![c] = "CLOSED"]
    /\ closed' = [closed EXCEPT ![c] = TRUE]
    /\ timer' = [timer EXCEPT ![c] = "cleared"]
    /\ IF upState[c] # "NULL"
         THEN upState' = [upState EXCEPT ![c] = WsClose(@)]
         ELSE UNCHANGED upState
    /\ registry' = MapDelete(registry, sid[c])
    /\ UNCHANGED <<nextConn, sid, query, phase, language, audioReceived, cliErrorRan,
                   clientOut, upOut, cliIn, upIn, pings, env, batchVars, openSent>>

ClientError000(c) == ClientError(c)

PingTick000(c) == PingTick(c)

\* ------------------------------------------- POST /api/transcribe
\* The handler is an async function whose variables are all local, so the
\* handlers of different requests share no state; one request is modelled.
\* The code between two awaits is one action.
maxAttempts == 30

\* A settled call of the upstream REST API: [ok] is whether the promise
\* resolved, [http] the status of error.response (0 when the call got no
\* response), [job] data.job.status, [detail] data.detail, [data] the body of
\* the transcript and [message] error.message of a rejection.
Reply(call, ok, http, job, detail, data, message) ==
    [call |-> call, ok |-> ok, http |-> http, job |-> job, detail |-> detail,
     data |-> data, message |-> message]

NoReply == Reply("none", TRUE, 0, Undefined, Undefined, Undefined, Undefined)

CreateReplies ==
    { Reply("create", TRUE, 201, Undefined, Undefined, Undefined, Undefined),
      Reply("create", FALSE, 401, Undefined, Undefined, Undefined,
            "Request failed with status code 401"),
      Reply("create", FALSE, 0, Undefined, Undefined, Undefined,
            "timeout of 120000ms exceeded") }

StatusReplies ==
    { Reply("status", TRUE, 200, "running", Undefined, Undefined, Undefined),
      Reply("status", TRUE, 200, "done", Undefined, Undefined, Undefined),
      Reply("status", TRUE, 200, "failed", "bad audio", Undefined, Undefined),
      Reply("status", TRUE, 200, "failed", Undefined, Undefined, Undefined),
      Reply("status", FALSE, 503, Undefined, Undefined, Undefined,
            "Request failed with status code 503"),
      Reply("status", FALSE, 0, Undefined, Undefined, Undefined,
            "timeout of 10000ms exceeded") }

TranscriptReplies ==
    { Reply("transcript", TRUE, 200, Undefined, Undefined, "text", Undefined),
      Reply("transcript", TRUE, 200, Undefined, Undefined, "", Undefined),
      Reply("transcript", FALSE, 404, Undefined, Undefined, Undefined,
            "Request failed with status code 404"),
      Reply("transcript", FALSE, 0, Undefined, Undefined, Undefined,
            "timeout of 10000ms exceeded") }

\* res.status(status).json(...)
Response(status, error, text) == [status |-> status, error |-> error, transcript |-> text]

NoFile == Response(400, "No file uploaded", Undefined)
TimedOut == Response(500, "Failed to get transcript (timed out)", Undefined)

\* the catch of the handler, for an error with message msg whose
\* error.response has status http (0: the error has no response)
ErrorResponse(msg, http) == Response(IF http # 0 THEN http ELSE 500, msg, Undefined)

InitRequest ==
    /\ stage = "none"
    /\ attempts = 0
    /\ transcript = Undefined
    /\ polls = 0
    /\ reply = NoReply
    /\ responses = <<>>

Respond(resp) ==
    /\ stage' = "responded"
    /\ responses' = Append(responses, resp)

\* a loop test that lets one more attempt through
LoopContinues_OneMore(a) == a <= maxAttempts

\* while (attempts < maxAttempts)
LoopContinues(a) == a < maxAttempts

\* if (!transcript) throw ...; res.json({ transcript })
AfterLoop(t) ==
    IF t \in {Undefined, ""} THEN Respond(TimedOut) ELSE Respond(Response(200, Undefined, t))

\* attempts++, the loop test and what follows it
NextIteration ==
    /\ attempts' = attempts + 1
    /\ IF LoopContinues(attempts + 1)
         THEN stage' = "sleeping" /\ UNCHANGED responses
         ELSE AfterLoop(transcript)

\* the catch inside the loop, for an error with message msg
PollCatch(msg) ==
    IF attempts = maxAttempts - 1
      THEN /\ Respond(ErrorResponse("Failed to get job status: " \o msg, 0))
           /\ UNCHANGED attempts
      ELSE NextIteration

\* the request arrives; the handler runs up to the await of axios.post
Receive(hasFile) ==
    /\ stage = "none"
    /\ IF hasFile
         THEN stage' = "creating" /\ UNCHANGED responses
         ELSE Respond(NoFile)
    /\ UNCHANGED <<attempts, transcript, polls, reply, relayVars>>

\* axios.post settles; the handler runs up to the await of the first delay
CreateSettles(o) ==
    /\ stage = "creating"
    /\ reply' = o
    /\ IF o.ok
         THEN /\ attempts' = 0
              /\ IF LoopContinues(0)
                   THEN stage' = "sleeping" /\ UNCHANGED responses
                   ELSE AfterLoop(transcript)
         ELSE /\ Respond(ErrorResponse(o.message, o.http))
              /\ UNCHANGED attempts
    /\ UNCHANGED <<transcript, polls, relayVars>>

\* the delay ends; the handler sends the status request
DelayEnds ==
    /\ stage = "sleeping"
    /\ stage' = "polling"
    /\ polls' = polls + 1
    /\ UNCHANGED <<attempts, transcript, reply, responses, relayVars>>

\* the status request settles
StatusSettles(o) ==
    /\ stage = "polling"
    /\ reply' = o
    /\ IF ~o.ok THEN PollCatch(o.message)
       ELSE IF o.job = "done" THEN stage' = "fetching" /\ UNCHANGED <<attempts, responses>>
       ELSE IF o.job = "failed" THEN PollCatch(OrElse(o.detail, "Transcription failed"))
       ELSE NextIteration
    /\ UNCHANGED <<transcript, polls, relayVars>>

\* the transcript request settles
TranscriptSettles(o) ==
    /\ stage = "fetching"
    /\ reply' = o
    /\ IF o.ok
         THEN /\ transcript' = o.data
              /\ AfterLoop(o.data)
              /\ UNCHANGED attempts
         ELSE /\ PollCatch(o.message)
              /\ UNCHANGED transcript
    /\ UNCHANGED <<polls, relayVars>>

\* ------------------------------------------------------- specification
Next ==
    \/ \E k \in Keys, q \in env.langs, throws \in BOOLEAN : Connection(k, q, throws)
    \/ \E c \in Conns : UpstreamOpen(c)
    \/ \E c \in Conns, msg \in {m \in UpstreamMsgs : m.message \in env.upMsgs} : UpstreamMessage(c, msg)
    \/ \E c \in Conns : UpstreamClose(c)
    \/ \E c \in Conns : UpstreamError(c)
    \/ \E c \in Conns, p \in env.payloads : ClientMessage(c, p)
    \/ \E c \in Conns : ClientClose(c)
    \/ \E c \in Conns : ClientError(c)
    \/ \E c \in Conns : PingTick(c)

Init == InitSessions /\ events = 0 /\ env = LifecycleEnv /\ InitRequest

Spec == Init /\ [][Next]_vars

\* the relay under every kind of upstream message
InitMessages == InitSessions /\ events = 0 /\ env = MessagesEnv /\ InitRequest
SpecMessages == InitMessages /\ [][Next]_vars

\* the relay under every lang parameter
InitLanguage == InitSessions /\ events = 0 /\ env = LanguageEnv /\ InitRequest
SpecLanguage == InitLanguage /\ [][Next]_vars

\* the relay of part_000
Next000 ==
    \/ \E k \in Keys, q \in env.langs, throws \in BOOLEAN : Connection000(k, q, throws)
    \/ \E c \in Conns : UpstreamOpen000(c)
    \/ \E c \in Conns, msg \in {m \in UpstreamMsgs : m.message \in env.upMsgs} : UpstreamMessage000(c, msg)
    \/ \E c \in Conns : UpstreamClose000(c)
    \/ \E c \in Conns : UpstreamError000(c)
    \/ \E c \in Conns, p \in env.payloads : ClientMessage000(c, p)
    \/ \E c \in Conns : ClientClose000(c)
    \/ \E c \in Conns : ClientError000(c)
    \/ \E c \in Conns : PingTick000(c)

Spec000 == Init /\ [][Next000]_vars

\* the batch endpoint
NextBatch ==
    \/ \E hasFile \in BOOLEAN : Receive(hasFile)
    \/ \E o \in CreateReplies : CreateSettles(o)
    \/ DelayEnds
    \/ \E o \in StatusReplies : StatusSettles(o)
    \/ \E o \in TranscriptReplies : TranscriptSettles(o)

SpecBatch == Init /\ [][NextBatch]_vars

\* Every await of the handler ends: the delay is a timer and each call of
\* axios carries a timeout.
SpecBatchFair ==
    /\ Init /\ [][NextBatch]_vars
    /\ WF_vars(\E o \in CreateReplies : CreateSettles(o))
    /\ WF_vars(DelayEnds)
    /\ WF_vars(\E o \in StatusReplies : StatusSettles(o))
    /\ WF_vars(\E o \in TranscriptReplies : TranscriptSettles(o))

\* ================================================================ claims
Sessions == {c \in Conns : phase[c] = "session"}

\* the audio frames among what was sent upstream
Forwarded(out) == SelectSeq(out, LAMBDA it : it.message = "audio")

\* the events among what was sent to the client that relay an upstream message
Relayed(out) == SelectSeq(out, LAMBDA ev : ev.src > 0)

\* the connection event of c is handled in this step
Connects(c) == phase[c] = "none" /\ phase'[c] # "none"

\* ----------------------------------------------------------------- C1
\* C1: in every reachable state the registry holds at most
\* MAX_CONCURRENT_SESSIONS = 2 entries.
C1_RegistryBounded == MapSize(registry) <= MAX_CONCURRENT_SESSIONS

\* the registry is full and a connection has been turned away
C1_Witness == MapSize(registry) = MAX_CONCURRENT_SESSIONS /\ \E c \in Conns : phase[c] = "rejected"

\* ----------------------------------------------------------------- C3
\* C3: a connection that arrives while the registry holds 2 sessions is sent
\* exactly one event, the capacity error, and is closed; the registry is left
\* as it was; no session, timer or upstream connection is created for it, and
\* no handler ever acts on it afterwards.
C3_RejectedUntouched(c) ==
    /\ phase'[c] = "rejected"
    /\ clientOut'[c] = <<CapacityError>>
    /\ cliState'[c] = "CLOSING"
    /\ timer'[c] = "none"
    /\ upState'[c] = "NULL"
    /\ ~closed'[c]
    /\ upOut'[c] = <<>>
    /\ \A k \in Keys : registry'[k] # c

C3_Rejection ==
    [][\A c \in Conns :
         /\ (Connects(c) /\ MapSize(registry) >= MAX_CONCURRENT_SESSIONS)
               => (C3_RejectedUntouched(c) /\ registry' = registry)
         /\ phase[c] = "rejected" => C3_RejectedUntouched(c)]_vars

\* a third connection has been rejected while two sessions are registered
C3_Witness ==
    \E c \in Conns : phase[c] = "rejected" /\ MapSize(registry) = MAX_CONCURRENT_SESSIONS
                     /\ clientOut[c] = <<CapacityError>>

\* ----------------------------------------------------------------- C4
\* C4: once a session's closed flag is true, no client payload is forwarded
\* upstream and no upstream message is relayed to the client, whatever
\* messages arrive afterwards.
C4_NoForwardAfterClose ==
    [][\A c \in Conns :
         closed[c] => /\ Forwarded(upOut'[c]) = Forwarded(upOut[c])
                      /\ Relayed(clientOut'[c]) = Relayed(clientOut[c])]_vars

\* a closed session has received an audio frame it did not forward and a
\* transcript message it did not relay
C4_Witness ==
    \E c \in Sessions :
        /\ closed[c]
        /\ \E i \in DOMAIN cliIn[c] :
              /\ ~ParsesAsJSON(cliIn[c][i])
              /\ \A j \in DOMAIN upOut[c] : upOut[c][j].src # i
        /\ \E i \in DOMAIN upIn[c] :
              /\ Normalize(upIn[c][i], i) # <<>>
              /\ \A j \in DOMAIN clientOut[c] : clientOut[c][j].src # i

\* ---------------------------------------------------------------- C10
\* C10: within one session the audio frames sent upstream are, in order, a
\* subsequence of the frames received from the client, each sent verbatim in
\* the step that received it; the events relayed to the client are in the
\* order of the upstream messages that produced them, each produced in the
\* step that received its message; nothing is reordered, duplicated or held
\* back for later.
C10_InOrder(c) ==
    LET fw == Forwarded(upOut[c])
        rl == Relayed(clientOut[c])
    IN  /\ \A i \in DOMAIN fw :
              /\ fw[i].src \in DOMAIN cliIn[c]
              /\ fw[i].data = cliIn[c][fw[i].src]
              /\ i > 1 => fw[i - 1].src < fw[i].src
        /\ \A i \in DOMAIN rl :
              /\ rl[i].src \in DOMAIN upIn[c]
              /\ <<rl[i]>> = Normalize(upIn[c][rl[i].src], rl[i].src)
              /\ i > 1 => rl[i - 1].src < rl[i].src

C10_Unbuffered(c) ==
    LET fw == Forwarded(upOut[c])
        rl == Relayed(clientOut[c])
        fwn == Forwarded(upOut'[c])
        rln == Relayed(clientOut'[c])
    IN  /\ fwn # fw => /\ Len(cliIn'[c]) = Len(cliIn[c]) + 1
                       /\ Len(fwn) = Len(fw) + 1
                       /\ SubSeq(fwn, 1, Len(fw)) = fw
                       /\ fwn[Len(fwn)].src = Len(cliIn'[c])
        /\ rln # rl => /\ Len(upIn'[c]) = Len(upIn[c]) + 1
                       /\ Len(rln) = Len(rl) + 1
                       /\ SubSeq(rln, 1, Len(rl)) = rl
                       /\ rln[Len(rln)].src = Len(upIn'[c])

C10_RelayOrder == [][\A c \in Conns : C10_InOrder(c)' /\ C10_Unbuffered(c)]_vars

\* one session has forwarded two frames and has relayed two events
C10_Witness ==
    \E c \in Sessions :
        /\ Len(Forwarded(upOut[c])) >= 2
        /\ Len(Relayed(clientOut[c])) >= 2

\* ------------------------------------------------- teardown vocabulary
\* the client "close" handler of c runs in this step
ClientCloses(c) == phase[c] = "session" /\ cliState[c] # "CLOSED" /\ cliState'[c] = "CLOSED"

\* the client "error" handler of c runs in this step
ClientErrors(c) == phase[c] = "session" /\ ~cliErrorRan[c] /\ cliErrorRan'[c]

\* close() has been called on the upstream socket, or it closed by itself
UpstreamShut(c) == upState[c] \notin {"CONNECTING", "OPEN"}

\* the registry entry under the id of c refers to session c
Registered(c) == registry[sid[c]] = c

TornDown(c) == closed[c] /\ timer[c] = "cleared" /\ UpstreamShut(c) /\ ~Registered(c)

\* ----------------------------------------------------------------- C2
\* C2: a connection request is admitted iff the registry holds fewer than 2
\* entries at that moment; an admission makes the registry exactly one entry
\* larger, whatever identifier the request carries; a removal makes it
\* exactly one entry smaller when the identifier is present and leaves it
\* unchanged when it is absent.
C2_AdmitRemove ==
    [][\A c \in Conns :
         /\ Connects(c) =>
               /\ (phase'[c] = "session") <=> (MapSize(registry) < MAX_CONCURRENT_SESSIONS)
               /\ phase'[c] = "session" => MapSize(registry') = MapSize(registry) + 1
         /\ (ClientCloses(c) \/ ClientErrors(c)) =>
               MapSize(registry') =
                   MapSize(registry) - (IF MapHas(registry, sid[c]) THEN 1 ELSE 0)]_vars

\* ----------------------------------------------------------------- C5
\* C5: when both the client error handler and the client close handler run
\* for one session, the one that runs second is a no-op: it leaves the
\* registry and every session's closed flag, timer and upstream socket as
\* they are and sends nothing to any client or upstream; so the timer is
\* released once and one registry entry is removed.
C5_SecondHandlerNoOp ==
    [][\A c \in Conns :
         ((ClientCloses(c) \/ ClientErrors(c)) /\ closed[c]) =>
             /\ registry' = registry
             /\ closed' = closed
             /\ timer' = timer
             /\ upState' = upState
             /\ clientOut' = clientOut
             /\ upOut' = upOut]_vars

\* ----------------------------------------------------------------- C6
\* C6: when the client closes its connection while the upstream socket is
\* open, EndOfStream is sent upstream and the registry becomes exactly one
\* entry smaller; and once the client has closed, nothing more is sent to it.
C6_ClientCloseWhileOpen ==
    [][\A c \in Conns :
         /\ (ClientCloses(c) /\ upState[c] = "OPEN") =>
               /\ upOut'[c] = Append(upOut[c], EndOfStream)
               /\ MapSize(registry') = MapSize(registry) - 1
         /\ cliState[c] = "CLOSED" => clientOut'[c] = clientOut[c]]_vars

\* ----------------------------------------------------------------- C7
\* C7: once the handler of a client close, a client error, an upstream close,
\* an upstream error or a failed upstream setup has returned, the session is
\* torn down: closed, timer cancelled, upstream shut, registry entry gone.
C7_AllPathsTearDown ==
    \A c \in Sessions :
        ( \/ cliState[c] = "CLOSED"
          \/ cliErrorRan[c]
          \/ upState[c] = "CLOSED"
          \/ upState[c] = "ERRORED"
          \/ upState[c] = "NULL" ) => TornDown(c)

\* ----------------------------------------------------------------- C8
\* C8: every session whose closed flag is false is in the registry under its
\* own id, and that entry refers to it, also when a later connection carries
\* the sec-websocket-key of a live session.
C8_LiveSessionsRegistered == \A c \in Sessions : ~closed[c] => Registered(c)

\* ----------------------------------------------------------------- C9
\* C9: closed never goes from true back to false, and after every handler a
\* session whose closed flag is true has its timer cancelled, its upstream
\* socket (if any) shut and its id absent from the registry.
C9_ClosedIsFinal ==
    [][\A c \in Conns :
         /\ closed[c] => closed'[c]
         /\ closed'[c] => /\ timer'[c] = "cleared"
                          /\ UpstreamShut(c)'
                          /\ ~MapHas(registry', sid'[c])]_vars

\* ---------------------------------------------------------------- C11
\* the upstream "message" handler of c runs in this step
UpstreamDelivers(c) == Len(upIn'[c]) = Len(upIn[c]) + 1

\* the type and transcript of each event sent to the client
Shape(evs) == [i \in DOMAIN evs |-> <<evs[i].type, evs[i].text>>]
Types(evs) == [i \in DOMAIN evs |-> evs[i].type]

C11_Emits(msg, sent) ==
    IF ~msg.json THEN sent = <<>>
    ELSE IF msg.message = "RecognitionStarted" THEN Types(sent) = <<"recognition_started">>
    ELSE IF msg.message = "AddPartialTranscript"
      THEN Shape(sent) = << <<"partial", IF msg.transcript = Undefined THEN "" ELSE msg.transcript>> >>
    ELSE IF msg.message = "AddTranscript"
      THEN Shape(sent) = << <<"final", IF msg.transcript = Undefined THEN "" ELSE msg.transcript>> >>
    ELSE IF msg.message = "Warning" THEN Types(sent) = <<"warning">>
    ELSE IF msg.message = "Error" THEN Types(sent) = <<"error">>
    ELSE sent = <<>>

\* C11: for every upstream message received while the session is not closed
\* the client is sent exactly one recognition_started, partial, final, warning
\* or error event according to the message (partial and final carry
\* metadata.transcript, or "" when it is absent), and nothing for any other
\* or undecodable message; no such message changes a closed flag, the state
\* of a client or upstream connection, or the registry.
C11_Normalisation ==
    [][\A c \in Conns :
         (UpstreamDelivers(c) /\ ~closed[c]) =>
             /\ Len(clientOut'[c]) >= Len(clientOut[c])
             /\ SubSeq(clientOut'[c], 1, Len(clientOut[c])) = clientOut[c]
             /\ C11_Emits(upIn'[c][Len(upIn'[c])],
                          SubSeq(clientOut'[c], Len(clientOut[c]) + 1, Len(clientOut'[c])))
             /\ closed' = closed
             /\ cliState' = cliState
             /\ upState' = upState
             /\ registry' = registry]_vars

\* an open session has relayed a transcript and an application-level Error
\* and has dropped an undecodable frame; it is still open and registered
C11_Witness ==
    \E c \in Sessions :
        /\ \E i, j, k \in DOMAIN upIn[c] :
              /\ upIn[c][i].message = "AddPartialTranscript"
              /\ upIn[c][j].message = "Error"
              /\ ~upIn[c][k].json
        /\ Types(Relayed(clientOut[c])) \in {<<"partial", "error">>, <<"error", "partial">>}
        /\ ~closed[c] /\ cliState[c] = "OPEN" /\ upState[c] = "OPEN" /\ Registered(c)

\* ---------------------------------------------------------------- C12
\* C12: the language of every session is the lang parameter of its request
\* when that is one of the 11 supported codes, and "ar" for every other
\* value and for a request without the parameter.
C12_LanguageResolved ==
    \A c \in Sessions :
        language[c] = IF query[c] \in SUPPORTED_LANGUAGES THEN query[c] ELSE "ar"

\* ---------------------------------------------------------------- C13
\* the client "message" handler of c runs in this step
ClientDelivers(c) == Len(cliIn'[c]) = Len(cliIn[c]) + 1

\* C13: a client payload is sent upstream, verbatim, iff the session is not
\* closed, the payload does not decode as JSON and the upstream socket is
\* OPEN when the payload is received; otherwise it is dropped: nothing is
\* sent upstream then or later for it, no event is sent to the client and
\* audioReceived is left as it was.
C13_ForwardIffReady ==
    [][\A c \in Conns :
         /\ ClientDelivers(c) =>
               LET p == cliIn'[c][Len(cliIn'[c])]
               IN  /\ IF ~closed[c] /\ ~ParsesAsJSON(p) /\ upState[c] = "OPEN"
                         THEN /\ Len(upOut'[c]) = Len(upOut[c]) + 1
                              /\ SubSeq(upOut'[c], 1, Len(upOut[c])) = upOut[c]
                              /\ upOut'[c][Len(upOut'[c])].message = "audio"
                              /\ upOut'[c][Len(upOut'[c])].data = p
                         ELSE upOut'[c] = upOut[c]
                   /\ clientOut' = clientOut
                   /\ audioReceived' = audioReceived
         /\ Forwarded(upOut'[c]) # Forwarded(upOut[c]) =>
               /\ ClientDelivers(c)
               /\ upOut'[c][Len(upOut'[c])].src = Len(cliIn'[c])]_vars

\* a session dropped a frame that came before its upstream socket opened,
\* forwarded a later frame, dropped a JSON payload, and its audioReceived
\* is still false
C13_Witness ==
    \E c \in Sessions :
        /\ Len(cliIn[c]) >= 3
        /\ ~ParsesAsJSON(cliIn[c][1])
        /\ \E i \in DOMAIN cliIn[c] : ParsesAsJSON(cliIn[c][i])
        /\ Len(Forwarded(upOut[c])) = 1
        /\ Forwarded(upOut[c])[1].src > 1
        /\ ~audioReceived[c]

\* ------------------------------------------------------ batch vocabulary
\* the handler sends its response in this step
Responds == stage # "responded" /\ stage' = "responded"

\* the status request settles in this step
StatusReturns == stage = "polling" /\ stage' # "polling"

LastResponse == responses[Len(responses)]

\* ---------------------------------------------------------------- C14
\* C14: when a status request returns job status "failed" the handler
\* responds at once, with a status in 500..599 and as error message the
\* detail the upstream gave ("Transcription failed" when it gave none); it
\* does not go on polling.
C14_FailedIsTerminal ==
    [][(StatusReturns /\ reply'.ok /\ reply'.job = "failed") =>
          /\ Responds
          /\ LastResponse'.status \in 500..599
          /\ LastResponse'.error =
                 (IF reply'.detail = Undefined THEN "Transcription failed" ELSE reply'.detail)]_vars

\* ---------------------------------------------------------------- C15
\* C15: when the handler responds because a call of the upstream API (job
\* creation, status request, transcript request) failed, the response is an
\* error whose status is the HTTP status of that call's response when it
\* had one, and 500 when it had none.
C15_UpstreamStatusKept ==
    [][(Responds /\ ~reply'.ok) =>
          LastResponse'.status = (IF reply'.http # 0 THEN reply'.http ELSE 500)]_vars

\* ---------------------------------------------------------------- C16
C16_Bounded ==
    /\ polls <= maxAttempts
    /\ Len(responses) <= 1
    /\ (stage = "responded") = (Len(responses) = 1)
    /\ stage = "responded" =>
          /\ transcript \in {Undefined, ""} => LastResponse.status # 200
          /\ (polls = maxAttempts /\ reply.call = "status" /\ reply.ok /\ reply.job = "running")
                => LastResponse = TimedOut
          /\ (polls = maxAttempts /\ reply.call = "status" /\ ~reply.ok)
                => /\ LastResponse.status >= 500
                   /\ LastResponse.error = "Failed to get job status: " \o reply.message

\* C16: whatever the upstream answers, the handler sends at most 30 status
\* requests and then exactly one response; when no transcript was obtained
\* the response is an error, never a 200: the timeout error when the job was
\* still pending at the last poll, the polling error when the last poll
\* itself failed.
C16_Terminates == []C16_Bounded /\ ((stage # "none") ~> (stage = "responded"))

\* the job stayed pending through all 30 polls and the handler answered with
\* the timeout error
C16_Witness ==
    /\ stage = "responded"
    /\ polls = maxAttempts
    /\ reply.job = "running"
    /\ responses = <<TimedOut>>

\* ---------------------------------------------------------------- C17
\* C17: when the first of the client close handler and the client error
\* handler runs for a session whose upstream socket is open, EndOfStream is
\* sent upstream and then the upstream socket is closed; once the upstream
\* socket has been asked to close nothing more is sent on it.
C17_EndOfStreamFirst ==
    [][\A c \in Conns :
         /\ ((ClientCloses(c) \/ ClientErrors(c)) /\ ~closed[c] /\ upState[c] = "OPEN") =>
               /\ upOut'[c] = Append(upOut[c], EndOfStream)
               /\ upState'[c] = "CLOSING"
         /\ UpstreamShut(c) => upOut'[c] = upOut[c]]_vars

\* ---------------------------------------------------------------- C18
\* new WebSocket threw while the session of c was set up
SetupFailed(c) == phase[c] = "session" /\ upState[c] = "NULL"

\* C18: a session whose upstream connection failed to open synchronously has
\* been sent exactly one event, an error; its client connection has been
\* closed by the relay; it is never sent ready and forwards no audio; and
\* it is not in the registry.
C18_SetupFailureCloses ==
    \A c \in Conns :
        SetupFailed(c) =>
            /\ Types(clientOut[c]) = <<"error">>
            /\ cliState[c] \in {"CLOSING", "CLOSED"}
            /\ Forwarded(upOut[c]) = <<>>
            /\ ~Registered(c)

\* ---------------------------------------------------------------- C19
\* the events that tell the client of a failure of the upstream transport
Notices(out) == SelectSeq(out, LAMBDA ev : ev \in {DisconnectedEvent, UpstreamErrorEvent})

\* C19: a session that is not closed and whose upstream socket has failed
\* (error, then close) has been told so exactly once; no session is told
\* more than once.
C19_NotifiedOnce ==
    \A c \in Sessions :
        /\ Len(Notices(clientOut[c])) <= 1
        /\ (~closed[c] /\ upState[c] \in {"ERRORED", "CLOSED"}) => Len(Notices(clientOut[c])) = 1

\* ---------------------------------------------------------------- C20
\* the upstream "close" or "error" handler of c runs in this step
UpstreamCloses(c) == upState[c] # "CLOSED" /\ upState'[c] = "CLOSED"
UpstreamErrors(c) == upState[c] # "ERRORED" /\ upState'[c] = "ERRORED"

\* C20: the upstream "close" and "error" handlers never close the client:
\* when one of them runs for a session that is not closed, is registered and
\* whose client connection is open, the client connection is still open,
\* closed is still false and the session is still registered afterwards.
C20_UpstreamLossKeepsClient ==
    [][\A c \in Conns :
         ((UpstreamCloses(c) \/ UpstreamErrors(c))
             /\ cliState[c] = "OPEN" /\ ~closed[c] /\ Registered(c)) =>
                 /\ cliState'[c] = "OPEN"
                 /\ ~closed'[c]
                 /\ Registered(c)']_vars

\* ---------------------------------------------------------------- C21
\* C21: audioReceived of a session is false as long as no client audio frame
\* has been forwarded upstream and true from the first forward on: it is the
\* forward that sets it, not an upstream message.
C21_AudioReceivedOnForward ==
    \A c \in Sessions : audioReceived[c] <=> (Forwarded(upOut[c]) # <<>>)

\* ---------------------------------------------------------------- C22
\* the upstream "open" handler of c runs in this step
UpstreamOpens(c) == upState[c] = "CONNECTING" /\ upState'[c] = "OPEN"

\* the StartRecognition messages among what was sent upstream, the ready
\* events among what was sent to the client
Starts(out) == SelectSeq(out, LAMBDA it : it.message = "StartRecognition")
Readies(out) == SelectSeq(out, LAMBDA ev : ev.type = "ready")

\* C22: the upstream "open" handler sends one StartRecognition upstream and
\* then one ready event to the client, and nothing else; StartRecognition is
\* the first message a session ever writes upstream, so no audio frame
\* precedes it, and neither it nor ready is sent a second time.
C22_StartThenReady ==
    [][\A c \in Conns :
         /\ UpstreamOpens(c) =>
               /\ openSent'[c] = <<Send("upstream", StartRecognition(c)),
                                   Send("client", ReadyEvent)>>
               /\ upOut'[c] = <<StartRecognition(c)>>
               /\ clientOut'[c] = Append(clientOut[c], ReadyEvent)
         /\ upOut'[c] # <<>> => upOut'[c][1].message = "StartRecognition"
         /\ Len(Starts(upOut'[c])) <= 1
         /\ Len(Readies(clientOut'[c])) <= 1
         /\ ~UpstreamOpens(c) =>
               /\ Starts(upOut'[c]) = Starts(upOut[c])
               /\ Readies(clientOut'[c]) = Readies(clientOut[c])]_vars

\* a session dropped a frame that came while its upstream socket was
\* connecting, then sent StartRecognition and ready, then forwarded a frame
C22_Witness ==
    \E c \in Sessions :
        /\ Len(cliIn[c]) >= 2
        /\ ~ParsesAsJSON(cliIn[c][1])
        /\ Len(upOut[c]) = 2
        /\ upOut[c][1] = StartRecognition(c)
        /\ upOut[c][2].message = "audio" /\ upOut[c][2].src = 2
        /\ Len(Readies(clientOut[c])) = 1

\* ---------------------------------------------------------------- C23
\* the upstream sockets the relay has created and not asked to close, and
\* that have not failed or closed by themselves
LiveUpstreams == {c \in Conns : upState[c] \in {"CONNECTING", "OPEN"}}

\* C23: the upstream connections that are open or opening are never more
\* than the entries of the registry, hence never more than 2; a rejected
\* connection has none, and a session that is no longer registered has its
\* upstream connection shut.
C23_UpstreamsBounded ==
    /\ Cardinality(LiveUpstreams) <= MapSize(registry)
    /\ Cardinality(LiveUpstreams) <= MAX_CONCURRENT_SESSIONS
    /\ \A c \in Conns : phase[c] = "rejected" => upState[c] = "NULL"
    /\ \A c \in Sessions : ~Registered(c) => UpstreamShut(c)

====
